---- MODULE Spec2Model ----
(***************************************************************************)
(* The catalog schema of locallibrary/catalog/models.py as a state machine. *)
(* The state is the content of the six tables the five models declare       *)
(* (Genre, Language, Author, Book, the Book<->Genre link table and          *)
(* BookInstance) plus the response of the last operation.  An operation is  *)
(* a validated create or update (full_clean, then save), a delete (with the *)
(* on_delete policy of every foreign key that points at the row), a change  *)
(* of a Book's genre links, or the default query over BookInstance.         *)
(***************************************************************************)
EXTENDS Integers, Sequences, FiniteSets

VARIABLES genres, languages, authors, books, book_genre, bookinstances,
          nextId, op, error, result

vars == <<genres, languages, authors, books, book_genre, bookinstances,
          nextId, op, error, result>>

(* --------------------------- value domains ----------------------------- *)

\* null=True columns: None is NULL, Some(x) is the value x.
None == <<>>
Some(x) == <<x>>

\* Strings whose case matters are sequences of one-character strings.
GenreNames == { <<"S", "F">>, <<"s", "f">>, <<"S", "f">>, <<"P">> }
LanguageNames == { <<"E", "N">>, <<"e", "n">>, <<"E", "n">>, <<"F">> }
Isbns == { <<"9", "X">>, <<"9", "x">>, <<"8">> }

\* what a caller may pass as a foreign key: NULL, or any of the ids 1..n
\* (naming a row or not)
Refs(n) == {None} \cup {Some(i) : i \in 1..n}

(* ------------------------------ helpers -------------------------------- *)

\* django.db.models.functions.Lower on one character
LowerChar(c) ==
    CASE c = "S" -> "s"
      [] c = "F" -> "f"
      [] c = "P" -> "p"
      [] c = "E" -> "e"
      [] c = "N" -> "n"
      [] c = "X" -> "x"
      [] OTHER -> c

\* django.db.models.functions.Lower: the lower-cased value of a field
Lower(s) == [i \in DOMAIN s |-> LowerChar(s[i])]

\* The rows of a table other than the one being saved (validation excludes
\* the instance's own primary key).
Others(rows, id) == {r \in rows : r.id # id}

\* The response of an operation that returns no rows.
Respond(o, e) == op' = o /\ error' = e /\ result' = <<>>

NoError == {}

(* ------------------------------- Genre --------------------------------- *)

GenreUniqueMessage == "Genre with this Name already exists."
GenreConstraintMessage == "Genre already exists (case insensitive match)"

\* Genre.name: unique=True, checked by validate_unique on the exact value.
GenreNameUniqueErrors(id, name) ==
    IF \E g \in Others(genres, id) : g.name = name
    THEN {GenreUniqueMessage} ELSE {}


\* A constraint on the name itself, without Lower.
GenreConstraintErrorsNoLower(id, name) ==
    IF \E g \in Others(genres, id) : g.name = name
    THEN {GenreConstraintMessage} ELSE {}

\* Genre.Meta.constraints: UniqueConstraint(Lower('name')), checked by
\* validate_constraints; skipped when 'name' already failed validation.
GenreConstraintErrors(id, name) ==
    IF \E g \in Others(genres, id) : Lower(g.name) = Lower(name)
    THEN {GenreConstraintMessage} ELSE {}

GenreErrors(id, name) ==
    IF GenreNameUniqueErrors(id, name) # {}
    THEN GenreNameUniqueErrors(id, name)
    ELSE GenreConstraintErrors(id, name)

CreateGenre(name) ==
    /\ LET e == GenreErrors(nextId.genre, name) IN
       /\ Respond("CreateGenre", e)
       /\ IF e = NoError
          THEN /\ genres' = genres \cup {[id |-> nextId.genre, name |-> name]}
               /\ nextId' = [nextId EXCEPT !.genre = @ + 1]
          ELSE UNCHANGED <<genres, nextId>>
    /\ UNCHANGED <<languages, authors, books, book_genre, bookinstances>>

UpdateGenre(id, name) ==
    /\ \E g \in genres : g.id = id
    /\ LET e == GenreErrors(id, name) IN
       /\ Respond("UpdateGenre", e)
       /\ genres' = IF e = NoError
                    THEN Others(genres, id) \cup {[id |-> id, name |-> name]}
                    ELSE genres
    /\ UNCHANGED <<languages, authors, books, book_genre, bookinstances, nextId>>

\* Deleting a Genre cascades to the rows of the link table that point at it
\* (the automatic through model's foreign keys are CASCADE).
DeleteGenre(id) ==
    /\ \E g \in genres : g.id = id
    /\ Respond("DeleteGenre", NoError)
    /\ genres' = Others(genres, id)
    /\ book_genre' = {l \in book_genre : l.genre # id}
    /\ UNCHANGED <<languages, authors, books, bookinstances, nextId>>

(* ------------------------------ Language ------------------------------- *)

LanguageConstraintMessage == "Language already exists (case insensitive match)"


\* A constraint on lan itself, without Lower.
LanguageErrorsNoLower(id, lan) ==
    IF \E l \in Others(languages, id) : l.lan = lan
    THEN {LanguageConstraintMessage} ELSE {}

\* Language.Meta.constraints: UniqueConstraint(Lower("lan")); lan itself is
\* not declared unique, so this is the only uniqueness check.
LanguageErrors(id, lan) ==
    IF \E l \in Others(languages, id) : Lower(l.lan) = Lower(lan)
    THEN {LanguageConstraintMessage} ELSE {}

CreateLanguage(lan) ==
    /\ LET e == LanguageErrors(nextId.language, lan) IN
       /\ Respond("CreateLanguage", e)
       /\ IF e = NoError
          THEN /\ languages' = languages \cup {[id |-> nextId.language, lan |-> lan]}
               /\ nextId' = [nextId EXCEPT !.language = @ + 1]
          ELSE UNCHANGED <<languages, nextId>>
    /\ UNCHANGED <<genres, authors, books, book_genre, bookinstances>>

UpdateLanguage(id, lan) ==
    /\ \E l \in languages : l.id = id
    /\ LET e == LanguageErrors(id, lan) IN
       /\ Respond("UpdateLanguage", e)
       /\ languages' = IF e = NoError
                       THEN Others(languages, id) \cup {[id |-> id, lan |-> lan]}
                       ELSE languages
    /\ UNCHANGED <<genres, authors, books, book_genre, bookinstances, nextId>>


\* on_delete=DO_NOTHING in place of SET_NULL.
SetNullLanguageDoNothing(b, id) == b

\* Book.language is on_delete=SET_NULL: the delete goes through and every
\* Book that pointed at the Language has its language column set to NULL.
SetNullLanguage(b, id) ==
    IF b.language = Some(id) THEN [b EXCEPT !.language = None] ELSE b

DeleteLanguage(id) ==
    /\ \E l \in languages : l.id = id
    /\ Respond("DeleteLanguage", NoError)
    /\ languages' = Others(languages, id)
    /\ books' = {SetNullLanguage(b, id) : b \in books}
    /\ UNCHANGED <<genres, authors, book_genre, bookinstances, nextId>>

(* ------------------------------- Author -------------------------------- *)

FirstNames == {"Ursula"}
LastNames == {"Le Guin", "Borges"}
Dates == {1, 2}
OptDates == {None} \cup {Some(d) : d \in Dates}

CreateAuthor(first_name, last_name, date_of_birth, date_of_death) ==
    /\ Respond("CreateAuthor", NoError)
    /\ authors' = authors \cup {[id |-> nextId.author,
                                 first_name |-> first_name,
                                 last_name |-> last_name,
                                 date_of_birth |-> date_of_birth,
                                 date_of_death |-> date_of_death]}
    /\ nextId' = [nextId EXCEPT !.author = @ + 1]
    /\ UNCHANGED <<genres, languages, books, book_genre, bookinstances>>

UpdateAuthor(id, first_name, last_name, date_of_birth, date_of_death) ==
    /\ \E a \in authors : a.id = id
    /\ Respond("UpdateAuthor", NoError)
    /\ authors' = Others(authors, id) \cup {[id |-> id,
                                             first_name |-> first_name,
                                             last_name |-> last_name,
                                             date_of_birth |-> date_of_birth,
                                             date_of_death |-> date_of_death]}
    /\ UNCHANGED <<genres, languages, books, book_genre, bookinstances, nextId>>

RestrictedError == "RestrictedError"


\* Book.author without on_delete=RESTRICT: nothing blocks the delete.
AuthorRestrictedByNothing(id) == {}

\* Book.author is on_delete=RESTRICT: the Books that block the delete.
AuthorRestrictedBy(id) == {b \in books : b.author = Some(id)}

DeleteAuthor(id) ==
    /\ \E a \in authors : a.id = id
    /\ IF AuthorRestrictedBy(id) # {}
       THEN /\ Respond("DeleteAuthor", {RestrictedError})
            /\ UNCHANGED authors
       ELSE /\ Respond("DeleteAuthor", NoError)
            /\ authors' = Others(authors, id)
    /\ UNCHANGED <<genres, languages, books, book_genre, bookinstances, nextId>>

(* -------------------------------- Book --------------------------------- *)

Titles == {"Ficciones"}
Summaries == {"stories"}

AuthorInvalidMessage == "author instance does not exist."
LanguageInvalidMessage == "language instance does not exist."
IsbnUniqueMessage == "Book with this ISBN already exists."

\* ForeignKey.validate: a non-null reference must name an existing row.
AuthorRefErrors(author) ==
    IF author # None /\ ~(\E a \in authors : Some(a.id) = author)
    THEN {AuthorInvalidMessage} ELSE {}

LanguageRefErrors(language) ==
    IF language # None /\ ~(\E l \in languages : Some(l.id) = language)
    THEN {LanguageInvalidMessage} ELSE {}


\* Book.isbn compared without regard to case.
IsbnErrorsLower(id, isbn) ==
    IF \E b \in Others(books, id) : Lower(b.isbn) = Lower(isbn)
    THEN {IsbnUniqueMessage} ELSE {}

\* Book.isbn: unique=True, compared as the exact string.
IsbnErrors(id, isbn) ==
    IF \E b \in Others(books, id) : b.isbn = isbn
    THEN {IsbnUniqueMessage} ELSE {}

BookErrors(id, author, language, isbn) ==
    AuthorRefErrors(author) \cup LanguageRefErrors(language) \cup IsbnErrors(id, isbn)

BookRow(id, title, author, language, summary, isbn) ==
    [id |-> id, title |-> title, author |-> author, language |-> language,
     summary |-> summary, isbn |-> isbn]

CreateBook(title, author, language, summary, isbn) ==
    /\ LET e == BookErrors(nextId.book, author, language, isbn) IN
       /\ Respond("CreateBook", e)
       /\ IF e = NoError
          THEN /\ books' = books \cup
                      {BookRow(nextId.book, title, author, language, summary, isbn)}
               /\ nextId' = [nextId EXCEPT !.book = @ + 1]
          ELSE UNCHANGED <<books, nextId>>
    /\ UNCHANGED <<genres, languages, authors, book_genre, bookinstances>>

UpdateBook(id, title, author, language, summary, isbn) ==
    /\ \E b \in books : b.id = id
    /\ LET e == BookErrors(id, author, language, isbn) IN
       /\ Respond("UpdateBook", e)
       /\ books' = IF e = NoError
                   THEN Others(books, id) \cup
                        {BookRow(id, title, author, language, summary, isbn)}
                   ELSE books
    /\ UNCHANGED <<genres, languages, authors, book_genre, bookinstances, nextId>>


\* BookInstance.book without on_delete=RESTRICT: nothing blocks the delete.
BookRestrictedByNothing(id) == {}

\* BookInstance.book is on_delete=RESTRICT: the instances that block the delete.
BookRestrictedBy(id) == {i \in bookinstances : i.book = Some(id)}

\* An unreferenced Book is deleted together with its rows of the link table.
DeleteBook(id) ==
    /\ \E b \in books : b.id = id
    /\ IF BookRestrictedBy(id) # {}
       THEN /\ Respond("DeleteBook", {RestrictedError})
            /\ UNCHANGED <<books, book_genre>>
       ELSE /\ Respond("DeleteBook", NoError)
            /\ books' = Others(books, id)
            /\ book_genre' = {l \in book_genre : l.book # id}
    /\ UNCHANGED <<genres, languages, authors, bookinstances, nextId>>

IntegrityError == "IntegrityError"

\* Book.genre (ManyToManyField): book.genre.add(genre).  The link table's
\* foreign key rejects a genre id that names no row.
AddBookGenre(book, genre) ==
    /\ \E b \in books : b.id = book
    /\ IF \E g \in genres : g.id = genre
       THEN /\ Respond("AddBookGenre", NoError)
            /\ book_genre' = book_genre \cup {[book |-> book, genre |-> genre]}
       ELSE /\ Respond("AddBookGenre", {IntegrityError})
            /\ UNCHANGED book_genre
    /\ UNCHANGED <<genres, languages, authors, books, bookinstances, nextId>>

\* book.genre.remove(genre)
RemoveBookGenre(book, genre) ==
    /\ \E b \in books : b.id = book
    /\ Respond("RemoveBookGenre", NoError)
    /\ book_genre' = book_genre \ {[book |-> book, genre |-> genre]}
    /\ UNCHANGED <<genres, languages, authors, books, bookinstances, nextId>>

(* ----------------------------- BookInstance ---------------------------- *)

Imprints == {"Penguin"}

\* BookInstance.LOAN_STATUS: stored value -> display label
LOAN_STATUS ==
    [m |-> "Maintenance", o |-> "On loan", a |-> "Available", r |-> "Reserved"]

\* values the validators treat as empty
EmptyValues == {""}

\* status values a caller may supply
StatusInputs == {"m", "o", "a", "r", "", "x", "Maintenance"}

StatusDefault == "m"

BookRefInvalidMessage == "book instance does not exist."
InvalidChoiceMessage == "Value is not a valid choice."
IdUniqueMessage == "Book instance with this Id already exists."


\* BookInstance.book stored without checking that the Book exists.
BookRefErrorsUnchecked(book) == {}

BookRefErrors(book) ==
    IF book # None /\ ~(\E b \in books : Some(b.id) = book)
    THEN {BookRefInvalidMessage} ELSE {}


\* BookInstance.status without choices: every value is accepted.
StatusErrorsNoChoices(status) == {}

\* BookInstance.status: choices=LOAN_STATUS, blank=True.  An empty value is
\* not validated at all (blank=True); any other value must be a key of the
\* choices.
StatusErrors(status) ==
    IF status \in EmptyValues THEN {}
    ELSE IF status \notin DOMAIN LOAN_STATUS THEN {InvalidChoiceMessage}
    ELSE {}


\* BookInstance.id without primary_key=True: a used id is accepted again.
IdErrorsNotUnique(id) == {}

\* BookInstance.id: primary_key=True, so a new row's id must be unused.
IdErrors(id) ==
    IF \E i \in bookinstances : i.id = id THEN {IdUniqueMessage} ELSE {}

InstanceRow(id, book, imprint, due_back, status) ==
    [id |-> id, book |-> book, imprint |-> imprint, due_back |-> due_back,
     status |-> status]

\* status = None: the caller supplied no status and the field's default
\* applies.  id is the value uuid.uuid4 returned for the new row.
CreateBookInstance(id, book, imprint, due_back, status) ==
    LET s == IF status = None THEN StatusDefault ELSE status[1]
        e == BookRefErrors(book) \cup StatusErrors(s) \cup IdErrors(id) IN
    /\ Respond("CreateBookInstance", e)
    /\ bookinstances' = IF e = NoError
                        THEN bookinstances \cup
                             {InstanceRow(id, book, imprint, due_back, s)}
                        ELSE bookinstances
    /\ UNCHANGED <<genres, languages, authors, books, book_genre, nextId>>

UpdateBookInstance(id, book, imprint, due_back, status) ==
    /\ \E i \in bookinstances : i.id = id
    /\ LET e == BookRefErrors(book) \cup StatusErrors(status) IN
       /\ Respond("UpdateBookInstance", e)
       /\ bookinstances' = IF e = NoError
                           THEN Others(bookinstances, id) \cup
                                {InstanceRow(id, book, imprint, due_back, status)}
                           ELSE bookinstances
    /\ UNCHANGED <<genres, languages, authors, books, book_genre, nextId>>

DeleteBookInstance(id) ==
    /\ \E i \in bookinstances : i.id = id
    /\ Respond("DeleteBookInstance", NoError)
    /\ bookinstances' = Others(bookinstances, id)
    /\ UNCHANGED <<genres, languages, authors, books, book_genre, nextId>>

\* Where the database places NULL in an ascending ORDER BY.
NullsSortFirst == TRUE


\* ordering = ['-due_back']: descending.
DueBackDescending(a, b) ==
    IF a = None /\ b = None THEN TRUE
    ELSE IF a = None THEN ~NullsSortFirst
    ELSE IF b = None THEN NullsSortFirst
    ELSE a[1] >= b[1]

\* ORDER BY due_back ASC: a may precede b
DueBackLE(a, b) ==
    IF a = None /\ b = None THEN TRUE
    ELSE IF a = None THEN NullsSortFirst
    ELSE IF b = None THEN ~NullsSortFirst
    ELSE a[1] <= b[1]

\* BookInstance.Meta.ordering = ['due_back']: every sequence the database may
\* return for the rows S (rows with equal due_back come in any order).
RECURSIVE OrderByDueBack(_)
OrderByDueBack(S) ==
    IF S = {} THEN { <<>> }
    ELSE UNION { { <<x>> \o s : s \in OrderByDueBack(S \ {x}) } :
                 x \in {y \in S : \A z \in S : DueBackLE(y.due_back, z.due_back)} }

\* BookInstance.objects.all()
QueryBookInstances ==
    /\ op' = "QueryBookInstances"
    /\ error' = NoError
    /\ result' \in OrderByDueBack(bookinstances)
    /\ UNCHANGED <<genres, languages, authors, books, book_genre, bookinstances,
                   nextId>>

(* ------------------------------ behaviour ------------------------------ *)

Init ==
    /\ genres = {}
    /\ languages = {}
    /\ authors = {}
    /\ books = {}
    /\ book_genre = {}
    /\ bookinstances = {}
    /\ nextId = [genre |-> 1, language |-> 1, author |-> 1, book |-> 1]
    /\ op = "Init"
    /\ error = NoError
    /\ result = <<>>

(* --------------------------- specifications ---------------------------- *)

\* Rows an auto-increment table may ever receive in the partial
\* specifications (ids 1..MaxId).
MaxId == 2

\* Number of distinct values uuid.uuid4 returns in the partial specifications.
NumUUIDs == 2

\* The same for the specification of the default query.
QueryUUIDs == 3

\* The same two bounds for the specification of the whole catalog.
CatalogMaxId == 1
CatalogUUIDs == 1

GenreOps(n, names) ==
    \/ nextId.genre <= n /\ \E name \in names : CreateGenre(name)
    \/ \E id \in 1..n, name \in names : UpdateGenre(id, name)
    \/ \E id \in 1..n : DeleteGenre(id)

LanguageOps(n, names) ==
    \/ nextId.language <= n /\ \E lan \in names : CreateLanguage(lan)
    \/ \E id \in 1..n, lan \in names : UpdateLanguage(id, lan)
    \/ \E id \in 1..n : DeleteLanguage(id)

AuthorOps(n, lasts, dates) ==
    \/ nextId.author <= n
       /\ \E f \in FirstNames, l \in lasts, b \in dates, d \in dates :
              CreateAuthor(f, l, b, d)
    \/ \E id \in 1..n, f \in FirstNames, l \in lasts, b \in dates, d \in dates :
              UpdateAuthor(id, f, l, b, d)
    \/ \E id \in 1..n : DeleteAuthor(id)

BookOps(n, arefs, lrefs, isbns) ==
    \/ nextId.book <= n
       /\ \E t \in Titles, a \in arefs, l \in lrefs, s \in Summaries, i \in isbns :
              CreateBook(t, a, l, s, i)
    \/ \E id \in 1..n, t \in Titles, a \in arefs, l \in lrefs, s \in Summaries,
          i \in isbns : UpdateBook(id, t, a, l, s, i)
    \/ \E id \in 1..n : DeleteBook(id)

LinkOps(n) ==
    \/ \E b \in 1..n, g \in 1..n : AddBookGenre(b, g)
    \/ \E b \in 1..n, g \in 1..n : RemoveBookGenre(b, g)

InstanceOps(u, brefs, dues, statuses) ==
    \/ \E id \in 1..u, b \in brefs, i \in Imprints, d \in dues,
          s \in {None} \cup {Some(x) : x \in statuses} :
              CreateBookInstance(id, b, i, d, s)
    \/ \E id \in 1..u, b \in brefs, i \in Imprints, d \in dues, s \in statuses :
              UpdateBookInstance(id, b, i, d, s)
    \/ \E id \in 1..u : DeleteBookInstance(id)

\* Genres and Languages.
NamesNext ==
    \/ GenreOps(MaxId, GenreNames)
    \/ LanguageOps(MaxId, LanguageNames)

SpecNames == Init /\ [][NamesNext]_vars

\* Books and their isbn.
IsbnNext ==
    \/ AuthorOps(1, {"Borges"}, {None})
    \/ BookOps(MaxId, Refs(1), Refs(1), Isbns)

SpecIsbn == Init /\ [][IsbnNext]_vars

\* Authors and the Books that reference them.
AuthorBookNext ==
    \/ AuthorOps(MaxId, LastNames, {None})
    \/ BookOps(MaxId, Refs(MaxId), Refs(1), {<<"9", "X">>, <<"8">>})

SpecAuthorBook == Init /\ [][AuthorBookNext]_vars

\* Languages and the Books that reference them.
LanguageBookNext ==
    \/ LanguageOps(MaxId, {<<"E", "N">>, <<"e", "n">>, <<"F">>})
    \/ GenreOps(1, {<<"P">>})
    \/ BookOps(MaxId, Refs(1), Refs(MaxId), {<<"9", "X">>, <<"8">>})
    \/ LinkOps(1)

SpecLanguageBook == Init /\ [][LanguageBookNext]_vars

\* Books, their genre links and their BookInstances.
LoanNext ==
    \/ GenreOps(1, {<<"P">>})
    \/ BookOps(MaxId, {None}, {None}, {<<"9", "X">>, <<"8">>})
    \/ LinkOps(MaxId)
    \/ InstanceOps(NumUUIDs, Refs(MaxId), {None}, {"m"})

SpecLoan == Init /\ [][LoanNext]_vars

\* BookInstances, their ids and their status.
StatusNext ==
    InstanceOps(NumUUIDs, Refs(1), {None, Some(1)}, StatusInputs)

SpecStatus == Init /\ [][StatusNext]_vars

\* BookInstances, their due dates and the default query.
QueryNext ==
    \/ InstanceOps(QueryUUIDs, Refs(1), OptDates, {"m", "o"})
    \/ QueryBookInstances

SpecQuery == Init /\ [][QueryNext]_vars

\* The whole catalog.
Next ==
    \/ GenreOps(CatalogMaxId, {<<"P">>})
    \/ LanguageOps(CatalogMaxId, {<<"F">>})
    \/ AuthorOps(CatalogMaxId, {"Borges"}, {None})
    \/ BookOps(CatalogMaxId, Refs(CatalogMaxId), Refs(CatalogMaxId), {<<"8">>})
    \/ LinkOps(CatalogMaxId)
    \/ InstanceOps(CatalogUUIDs, Refs(CatalogMaxId), {None}, {"m"})
    \/ QueryBookInstances

Spec == Init /\ [][Next]_vars

(* ------------------------------- claims -------------------------------- *)

\* Two names that differ only in letter case.
DifferOnlyInCase(a, b) == a # b /\ Lower(a) = Lower(b)

GenreNamesDistinct ==
    \A g1, g2 \in genres : g1 # g2 => Lower(g1.name) # Lower(g2.name)

GenreRejectStep ==
    \A name \in GenreNames :
        /\ (CreateGenre(name) /\ \E g \in genres : DifferOnlyInCase(g.name, name))
              => (error' = {GenreConstraintMessage} /\ genres' = genres)
        /\ \A id \in 1..MaxId :
              (UpdateGenre(id, name)
                 /\ \E g \in Others(genres, id) : DifferOnlyInCase(g.name, name))
              => (error' = {GenreConstraintMessage} /\ genres' = genres)

\* C1: once a Genre named g1 exists, creating a Genre (or renaming one) to a
\* name g2 that differs from g1 only in letter case is rejected with "Genre
\* already exists (case insensitive match)" and stores nothing; no two stored
\* Genres ever have names that are equal after lower-casing.
C1_GenreCaseInsensitiveUnique ==
    [] GenreNamesDistinct /\ [][GenreRejectStep]_vars

C1_Witness ==
    /\ op = "CreateGenre"
    /\ error = {GenreConstraintMessage}
    /\ genres # {}

LanguageNamesDistinct ==
    \A l1, l2 \in languages : l1 # l2 => Lower(l1.lan) # Lower(l2.lan)

LanguageRejectStep ==
    \A lan \in LanguageNames :
        /\ (CreateLanguage(lan) /\ \E l \in languages : DifferOnlyInCase(l.lan, lan))
              => (error' = {LanguageConstraintMessage} /\ languages' = languages)
        /\ \A id \in 1..MaxId :
              (UpdateLanguage(id, lan)
                 /\ \E l \in Others(languages, id) : DifferOnlyInCase(l.lan, lan))
              => (error' = {LanguageConstraintMessage} /\ languages' = languages)

\* C2: once a Language exists, creating a Language (or renaming one) to a name
\* that differs from it only in letter case is rejected with "Language already
\* exists (case insensitive match)" and stores nothing; no two stored
\* Languages ever have names that are equal after lower-casing.
C2_LanguageCaseInsensitiveUnique ==
    [] LanguageNamesDistinct /\ [][LanguageRejectStep]_vars

C2_Witness ==
    /\ op = "UpdateLanguage"
    /\ error = {LanguageConstraintMessage}
    /\ Cardinality(languages) = 2

IsbnsDistinct ==
    \A b1, b2 \in books : b1 # b2 => b1.isbn # b2.isbn

\* A save of a Book is refused for its isbn exactly when another Book holds
\* the same string, and a refused save stores nothing.
IsbnStep ==
    \A t \in Titles, a \in Refs(1), l \in Refs(1), s \in Summaries, i \in Isbns :
        /\ CreateBook(t, a, l, s, i) =>
              /\ (IsbnUniqueMessage \in error') <=> (\E b \in books : b.isbn = i)
              /\ (IsbnUniqueMessage \in error') => books' = books
        /\ \A id \in 1..MaxId :
              UpdateBook(id, t, a, l, s, i) =>
                 /\ (IsbnUniqueMessage \in error')
                       <=> (\E b \in Others(books, id) : b.isbn = i)
                 /\ (IsbnUniqueMessage \in error') => books' = books

\* C3: no two stored Books ever have the same isbn string; creating a Book
\* with, or updating a Book to, an isbn another Book holds fails and leaves
\* the stored Books unchanged; an isbn that differs from the stored ones (be it
\* only in case) is not refused.
C3_IsbnUnique ==
    [] IsbnsDistinct /\ [][IsbnStep]_vars

C3_Witness ==
    /\ op = "UpdateBook"
    /\ IsbnUniqueMessage \in error
    /\ \E b1, b2 \in books : DifferOnlyInCase(b1.isbn, b2.isbn)

DeleteAuthorStep ==
    \A id \in 1..MaxId :
        DeleteAuthor(id) =>
            /\ books' = books
            /\ IF \E b \in books : b.author = Some(id)
               THEN error' = {RestrictedError} /\ authors' = authors
               ELSE /\ error' = NoError
                    /\ authors' = {a \in authors : a.id # id}
                    /\ Cardinality(authors') = Cardinality(authors) - 1

\* C4: deleting an Author that at least one Book references fails and leaves
\* the Author and every Book unchanged; deleting an Author no Book references
\* succeeds and removes exactly that Author.
C4_AuthorRestrict ==
    [][DeleteAuthorStep]_vars

C4_Witness ==
    /\ op = "DeleteAuthor"
    /\ error = {RestrictedError}
    /\ \E b \in books : \E a \in authors : b.author = Some(a.id)

DeleteLanguageStep ==
    \A id \in 1..MaxId :
        (DeleteLanguage(id) /\ \E b \in books : b.language = Some(id)) =>
            /\ error' = NoError
            /\ languages' = {l \in languages : l.id # id}
            /\ ~(\E l \in languages' : l.id = id)
            /\ Cardinality(books') = Cardinality(books)
            /\ \A b \in books :
                  IF b.language = Some(id)
                  THEN [b EXCEPT !.language = None] \in books'
                  ELSE b \in books'
            /\ book_genre' = book_genre

\* C5: deleting a Language that Books reference succeeds: the Language is
\* removed, every Book that referenced it is still stored with language NULL
\* and its other fields and genre links unchanged, and every other Book is
\* unchanged.
C5_LanguageSetNull ==
    [][DeleteLanguageStep]_vars

C5_Witness ==
    /\ op = "DeleteLanguage"
    /\ error = NoError
    /\ \E b1, b2 \in books : b1.language = None /\ b2.language # None
    /\ book_genre # {}

DeleteBookStep ==
    /\ \A id \in 1..MaxId :
          (DeleteBook(id) /\ \E i \in bookinstances : i.book = Some(id)) =>
              /\ error' = {RestrictedError}
              /\ books' = books
              /\ book_genre' = book_genre
              /\ bookinstances' = bookinstances
    /\ \A b \in books :
          ~(\E c \in books' : c.id = b.id)
              => ~(\E i \in bookinstances : i.book = Some(b.id))

\* C6: deleting a Book that at least one BookInstance references is rejected
\* and leaves the Book, its genre links and every BookInstance unchanged; a
\* Book leaves the table only in a state where no BookInstance references it.
C6_BookRestrict ==
    [][DeleteBookStep]_vars

C6_Witness ==
    /\ op = "DeleteBook"
    /\ error = {RestrictedError}
    /\ \E i \in bookinstances, l \in book_genre : i.book = Some(l.book)

StatusInEnumeration ==
    \A i \in bookinstances : i.status \in DOMAIN LOAN_STATUS

\* C7 as stated: every stored BookInstance's status is one of the four
\* values of the enumeration, the empty value being rejected like any other
\* value outside it.
C7_Original ==
    StatusInEnumeration

StatusInEnumerationOrEmpty ==
    \A i \in bookinstances : i.status \in DOMAIN LOAN_STATUS \cup EmptyValues

StatusStep ==
    \A id \in 1..NumUUIDs, b \in Refs(1), m \in Imprints, d \in {None, Some(1)} :
        /\ (CreateBookInstance(id, b, m, d, None) /\ error' = NoError)
              => InstanceRow(id, b, m, d, "m") \in bookinstances'
        /\ \A s \in StatusInputs \ (DOMAIN LOAN_STATUS \cup EmptyValues) :
              /\ CreateBookInstance(id, b, m, d, Some(s))
                    => (InvalidChoiceMessage \in error'
                          /\ bookinstances' = bookinstances)
              /\ UpdateBookInstance(id, b, m, d, s)
                    => (InvalidChoiceMessage \in error'
                          /\ bookinstances' = bookinstances)

\* C7 (amended): a BookInstance created without a status has status 'm'
\* (Maintenance); a create or update that supplies a non-empty status outside
\* the four choices is rejected as an invalid choice and stores nothing; the
\* empty status is accepted, so every stored status is one of the four choices
\* or empty.
C7_StatusChoicesOrBlank ==
    [] StatusInEnumerationOrEmpty /\ [][StatusStep]_vars

C7_Witness ==
    /\ op = "UpdateBookInstance"
    /\ InvalidChoiceMessage \in error
    /\ \E i \in bookinstances : i.status = "m"
    /\ \E i \in bookinstances : i.status = ""

InstanceIdsDistinct ==
    \A i1, i2 \in bookinstances : i1 # i2 => i1.id # i2.id

CreateInstanceStep ==
    (op' = "CreateBookInstance" /\ error' = NoError) =>
        \E i \in bookinstances' :
            /\ i.id \in 1..NumUUIDs
            /\ ~(\E j \in bookinstances : j.id = i.id)
            /\ bookinstances' = bookinstances \cup {i}

\* C8: a created BookInstance is stored under the generated UUID, which no
\* stored BookInstance had, and no two stored BookInstances ever share an id.
C8_InstanceIdUnique ==
    [] InstanceIdsDistinct /\ [][CreateInstanceStep]_vars

C8_Witness ==
    /\ op = "CreateBookInstance"
    /\ error = NoError
    /\ Cardinality(bookinstances) = NumUUIDs

\* C9: the default query over BookInstance returns every stored instance
\* exactly once, ordered by due_back ascending, every instance without a
\* due_back before every instance with one.
C9_QueryOrdered ==
    op = "QueryBookInstances" =>
        /\ Len(result) = Cardinality(bookinstances)
        /\ {result[k] : k \in DOMAIN result} = bookinstances
        /\ \A j, k \in DOMAIN result :
              j < k =>
                 /\ result[k].due_back = None => result[j].due_back = None
                 /\ (result[j].due_back # None /\ result[k].due_back # None)
                       => result[j].due_back[1] <= result[k].due_back[1]

C9_Witness ==
    /\ op = "QueryBookInstances"
    /\ Len(result) = 3
    /\ result[1].due_back = None
    /\ result[2].due_back = Some(1)
    /\ result[3].due_back = Some(2)
    /\ result[1].id > result[3].id

\* C10: every Book's author is NULL or an existing Author, every Book's
\* language is NULL or an existing Language, every genre link joins an
\* existing Book and an existing Genre, and every BookInstance's book is NULL
\* or an existing Book.
C10_ReferentialIntegrity ==
    /\ \A b \in books :
          /\ b.author = None \/ \E a \in authors : b.author = Some(a.id)
          /\ b.language = None \/ \E l \in languages : b.language = Some(l.id)
    /\ \A l \in book_genre :
          /\ \E b \in books : b.id = l.book
          /\ \E g \in genres : g.id = l.genre
    /\ \A i \in bookinstances :
          i.book = None \/ \E b \in books : i.book = Some(b.id)

C10_Witness ==
    /\ op = "DeleteLanguage"
    /\ \E b \in books : b.author # None /\ b.language = None
    /\ book_genre # {}
    /\ \E i \in bookinstances : i.book # None

====
